---- MODULE Spec2Model ----
(***************************************************************************)
(* Model of the two Streamlit risk-assessment scripts of the repository:   *)
(*   src/12app.py                     (variant "12app")                    *)
(*   src/1pneumonia_prediction_app.py (variant "1pneumonia")               *)
(* One behaviour follows one browser session of one variant.  Every user   *)
(* interaction makes Streamlit run the script's main() from top to bottom, *)
(* so every action below is: a widget change, then one whole run of main.  *)
(*                                                                         *)
(* Probabilities are integers in units of 1/10000 (0.5 is 5000).           *)
(* Text that the code edits character by character (the risk label) is a   *)
(* sequence of one-character strings.                                      *)
(***************************************************************************)
EXTENDS Integers, Sequences, FiniteSets, TLC

VARIABLES
    app,            \* which script this session runs
    fs,             \* the files the scripts read and write: path -> content
    cache,          \* the st.cache_resource entry of load_model (process wide)
    session_state,  \* st.session_state of the session
    widgets,        \* the values the session's widgets hold
    page            \* what the last run of main() rendered

vars == <<app, fs, cache, session_state, widgets, page>>

----------------------------------------------------------------------------
(* Bounds of the model *)

\* the input form is abstracted to one number, the feature vector 1..MaxInput
MaxInput == 9

----------------------------------------------------------------------------
(* Objects a model file can hold *)

None == "None"

\* The objects joblib.load can return.  Each stands for a kind of pickled
\* Python object, told apart by the attributes the scripts look at.
Predictors == {"tree", "ensemble", "multiclass", "generic", "proba_only", "not_a_model"}

Objects == Predictors \cup {None}

\* hasattr(model, a)
hasattr(m, a) ==
    CASE m = "tree"        -> a \in {"tree_", "predict", "predict_proba"}
      [] m = "ensemble"    -> a \in {"estimators_", "predict", "predict_proba"}
      [] m = "multiclass"  -> a \in {"estimators_", "predict", "predict_proba"}
      [] m = "generic"     -> a \in {"predict", "predict_proba"}
      [] m = "proba_only"  -> a \in {"predict_proba"}
      [] OTHER             -> FALSE

----------------------------------------------------------------------------
(* Files *)

Absent == [kind |-> "absent", obj |-> None, err |-> ""]
Corrupt(e) == [kind |-> "corrupt", obj |-> None, err |-> e]
Pickle(m) == [kind |-> "pickle", obj |-> m, err |-> ""]

\* the ordered candidate list of load_model in 12app.py
possible_paths ==
    << "models/my_model.pkl",
       "my_model.pkl",
       "app/models/my_model.pkl",
       "pneumonia_app/my_model.pkl",
       "resources/my_model.pkl" >>

\* where 12app.py stores an upload
save_path == "uploaded_model.pkl"

\* the one path 1pneumonia_prediction_app.py loads
fixed_path == "C:/Users/fcy/my_model.pkl"

Paths == {possible_paths[i] : i \in DOMAIN possible_paths} \cup {save_path, fixed_path}

\* Path.exists()
exists(files, path) == files[path].kind # "absent"

\* outcome of a call that may raise: ok, the value, or the exception
Return(v) == [ok |-> TRUE, val |-> v, exc |-> "", text |-> ""]
Raise(type, msg) == [ok |-> FALSE, val |-> None, exc |-> type, text |-> msg]

\* joblib.load(path)
joblib_load(files, path) ==
    CASE files[path].kind = "absent"  -> Raise("FileNotFoundError", "No such file or directory")
      [] files[path].kind = "corrupt" -> Raise("Exception", files[path].err)
      [] OTHER                        -> Return(files[path].obj)

----------------------------------------------------------------------------
(* Messages and log lines of one run *)

Msg(k, t) == [kind |-> k, text |-> t]
LogLine(l, t) == [level |-> l, text |-> t]

\* what a call of load_model hands back to main: the value returned, whether
\* st.stop() ended the run, the st.* messages it showed and its log lines
Loaded(v, stop, msgs, log) == [val |-> v, stop |-> stop, msgs |-> msgs, log |-> log]

----------------------------------------------------------------------------
(* 12app.py: load_model(); main() is its only caller and passes no file path *)

\* the loop over possible_paths, from candidate i on
RECURSIVE probe(_, _)
probe(files, i) ==
    IF i > Len(possible_paths)
    THEN Loaded(None, FALSE, <<>>, <<LogLine("error", "not found")>>)
    ELSE IF exists(files, possible_paths[i])
         THEN LET r == joblib_load(files, possible_paths[i])
              IN  IF r.ok
                  THEN Loaded(r.val, FALSE, <<>>,
                              <<LogLine("info", possible_paths[i])>>)
                  ELSE Loaded(None, FALSE, <<Msg("load_failed", r.text)>>,
                              <<LogLine("info", possible_paths[i]),
                                LogLine("error", r.text)>>)
         ELSE probe(files, i + 1)

load_model(files) == probe(files, 1)

\* 1pneumonia_prediction_app.py: load_model()
load_model_1p(files) ==
    LET r == joblib_load(files, fixed_path)
    IN  IF r.ok
        THEN Loaded(r.val, FALSE, <<>>, <<LogLine("success", fixed_path)>>)
        ELSE IF r.exc = "FileNotFoundError"
             THEN Loaded(None, TRUE, <<Msg("model_not_found", "")>>,
                         <<LogLine("error", "not found")>>)
             ELSE Loaded(None, TRUE, <<Msg("load_failed", r.text)>>,
                         <<LogLine("error", r.text)>>)

\* @st.cache_resource around load_model: the body runs on a miss and its
\* return value and st.* messages are stored; a hit replays them without
\* running the body (so without log lines).  A run ended by st.stop() stores
\* nothing.
NoCache == [set |-> FALSE, val |-> Loaded(None, FALSE, <<>>, <<>>)]

cache_resource(c, body) ==
    IF c.set
    THEN [out |-> [c.val EXCEPT !.log = <<>>], cache |-> c, ran_body |-> FALSE]
    ELSE [out |-> body,
          cache |-> IF body.stop THEN c ELSE [set |-> TRUE, val |-> body],
          ran_body |-> TRUE]

----------------------------------------------------------------------------
(* Scoring *)

\* the probability a fitted classifier gives feature vector x
ProbTable == <<4500, 5000, 7500, 0, 5001, 7000, 7001, 10000, 4504>>

ProbOf(x) == IF x \in DOMAIN ProbTable THEN ProbTable[x] ELSE (x * 997) % 10001

Probabilities == {ProbOf(x) : x \in 1..MaxInput}

\* feature vectors a predictor refuses with a ValueError
Rejected(m) == IF m = "generic" THEN {MaxInput} ELSE {}

\* model.predict_proba(input_df): one row, one probability per class
predict_proba(m, x) ==
    IF ~hasattr(m, "predict_proba")
    THEN Raise("AttributeError", "object has no attribute 'predict_proba'")
    ELSE IF x \in Rejected(m)
         THEN Raise("ValueError", "input rejected by the model")
         ELSE Return(<< <<10000 - ProbOf(x), ProbOf(x)>> >>)

\* f"{proba*100:.1f}%": the percentage rounded to one decimal, as the pair
\* <<whole percent, tenth>>.  (No table value lies on a rounding tie.)
format_percentage(proba) ==
    LET tenths == (proba + 5) \div 10
    IN  <<tenths \div 10, tenths % 10>>

----------------------------------------------------------------------------
(* Tier and protocol *)

Half == 5000
SevenTenths == 7000

HighRisk == <<"H", "i", "g", "h", " ", "R", "i", "s", "k">>
LowRisk == <<"L", "o", "w", " ", "R", "i", "s", "k">>

\* risk_level with the boundary on the wrong side
risk_level_inclusive(proba) == IF proba >= Half THEN HighRisk ELSE LowRisk

\* 12app.py: risk_level = "High Risk" if proba > 0.5 else "Low Risk"
risk_level(proba) == IF proba > Half THEN HighRisk ELSE LowRisk

\* 12app.py: color = "#FF4B4B" if proba > 0.5 else "#2ECC71"
color(proba) == IF proba > Half THEN "#FF4B4B" ELSE "#2ECC71"

\* 1pneumonia_prediction_app.py: the same two lines
risk_level_1p(proba) == IF proba > Half THEN HighRisk ELSE LowRisk

color_1p(proba) == IF proba > Half THEN "#FF4B4B" ELSE "#2ECC71"

\* protocol with the lower boundary of a three-tier policy, 0.4
protocol_three_tier(proba) ==
    IF proba > SevenTenths THEN "High Risk Protocol"
    ELSE IF proba > 4000 THEN "Moderate Risk Protocol"
    ELSE "Low Risk Protocol"

\* protocol with the 0.7 boundary on the wrong side
protocol_inclusive(proba) ==
    IF proba >= SevenTenths THEN "High Risk Protocol"
    ELSE IF proba > Half THEN "Moderate Risk Protocol"
    ELSE "Low Risk Protocol"

\* 12app.py: the if / elif / else that picks the recommendation block
protocol(proba) ==
    IF proba > SevenTenths THEN "High Risk Protocol"
    ELSE IF proba > Half THEN "Moderate Risk Protocol"
    ELSE "Low Risk Protocol"

\* 1pneumonia_prediction_app.py: the same chain
protocol_1p(proba) ==
    IF proba > SevenTenths THEN "High Risk Protocol"
    ELSE IF proba > Half THEN "Moderate Risk Protocol"
    ELSE "Low Risk Protocol"

----------------------------------------------------------------------------
(* 12app.py: the downloadable report *)

\* str.replace(old, new) on a text of single characters
replace(text, old, new) == [i \in DOMAIN text |-> IF text[i] = old THEN new ELSE text[i]]

NoReport ==
    [offered |-> FALSE, risk_level |-> <<>>, risk_percentage |-> <<>>,
     protocol |-> "", parameters |-> 0, file_name |-> <<>>]

\* download_report with the protocol name's 0.7 boundary on the wrong side
download_report_inclusive(level, percentage, proba, x) ==
    [offered |-> TRUE,
     risk_level |-> level,
     risk_percentage |-> percentage,
     protocol |-> IF proba >= SevenTenths THEN "High Risk"
                  ELSE IF proba > Half THEN "Moderate Risk"
                  ELSE "Low Risk",
     parameters |-> x,
     file_name |-> <<"VAP_Assessment_">> \o replace(level, " ", "_") \o <<".txt">>]

\* download_report with the level worked out again, from the 0.7 threshold
download_report_recomputed(level, percentage, proba, x) ==
    [offered |-> TRUE,
     risk_level |-> IF proba > SevenTenths THEN HighRisk ELSE LowRisk,
     risk_percentage |-> percentage,
     protocol |-> IF proba > SevenTenths THEN "High Risk"
                  ELSE IF proba > Half THEN "Moderate Risk"
                  ELSE "Low Risk",
     parameters |-> x,
     file_name |-> <<"VAP_Assessment_">> \o replace(level, " ", "_") \o <<".txt">>]

\* st.download_button(data=..., file_name=...)
download_report(level, percentage, proba, x) ==
    [offered |-> TRUE,
     risk_level |-> level,
     risk_percentage |-> percentage,
     protocol |-> IF proba > SevenTenths THEN "High Risk"
                  ELSE IF proba > Half THEN "Moderate Risk"
                  ELSE "Low Risk",
     parameters |-> x,
     file_name |-> <<"VAP_Assessment_">> \o replace(level, " ", "_") \o <<".txt">>]

----------------------------------------------------------------------------
(* Attribution (SHAP) *)

\* rows asked of shap.sample for the KernelExplainer background
BackgroundRows == 10

NoExplainer == [kind |-> "", background |-> 0]

\* shap.TreeExplainer(model): refuses a model without a tree structure
TreeExplainer(m) ==
    IF hasattr(m, "tree_") \/ hasattr(m, "estimators_")
    THEN Return([kind |-> "TreeExplainer", background |-> 0])
    ELSE Raise("Exception", "Model type not yet supported by TreeExplainer")

\* shap.KernelExplainer(model.predict, shap.sample(input_df, n))
KernelExplainer(m, n) ==
    IF hasattr(m, "predict")
    THEN Return([kind |-> "KernelExplainer", background |-> n])
    ELSE Raise("AttributeError", "object has no attribute 'predict'")

\* explainer.shap_values(input_df) and explainer.expected_value: a Python
\* list with one entry per class, or a single array.  Entries are named by
\* the class they belong to.
Attribution(list, classes) ==
    [is_list |-> list,
     items |-> [c \in 1..classes |-> c - 1]]

shap_values(explainer, m) ==
    CASE explainer.kind = "TreeExplainer" /\ m = "tree"       -> Attribution(TRUE, 2)
      [] explainer.kind = "TreeExplainer" /\ m = "multiclass" -> Attribution(TRUE, 3)
      [] OTHER                                                 -> Attribution(FALSE, 1)

expected_value(explainer, m) ==
    CASE explainer.kind = "TreeExplainer" /\ m = "tree"       -> Attribution(FALSE, 2)
      [] explainer.kind = "TreeExplainer" /\ m = "multiclass" -> Attribution(TRUE, 3)
      [] OTHER                                                 -> Attribution(FALSE, 1)

\* what plot_shap_explanation hands back: the figure (or None), the message
\* it showed, and what it computed on the way
NoShap ==
    [fig |-> FALSE, msgs |-> <<>>, explainer |-> NoExplainer,
     outputs |-> 0, is_list |-> FALSE, base_value |-> <<>>, shap_vals |-> <<>>]

Plotted(explainer, sv, base, vals) ==
    [fig |-> TRUE, msgs |-> <<>>, explainer |-> explainer,
     outputs |-> Len(sv.items), is_list |-> sv.is_list,
     base_value |-> base, shap_vals |-> vals]

ShapFailed(text) == [NoShap EXCEPT !.msgs = <<Msg("shap_failed", text)>>]

\* 12app.py: the choice of explainer
choose_explainer(m) ==
    IF hasattr(m, "tree_") \/ (\E est \in {"tree_", "estimators_"} : hasattr(m, est))
    THEN TreeExplainer(m)
    ELSE KernelExplainer(m, BackgroundRows)

\* select_output taking index 0, the negative class
select_output_first(sv, ev) ==
    IF sv.is_list /\ Len(sv.items) > 1
    THEN [base_value |-> <<ev.items[1]>>, shap_vals |-> <<sv.items[1]>>]
    ELSE [base_value |-> IF ~ev.is_list THEN ev.items ELSE <<ev.items[1]>>,
          shap_vals |-> sv.items]

\* 12app.py: the multi-output / single-output branch; Python index 1 is the
\* second entry
select_output(sv, ev) ==
    IF sv.is_list /\ Len(sv.items) > 1
    THEN [base_value |-> <<ev.items[2]>>, shap_vals |-> <<sv.items[2]>>]
    ELSE [base_value |-> IF ~ev.is_list THEN ev.items ELSE <<ev.items[1]>>,
          shap_vals |-> sv.items]

\* the rest of a try block once shap_values and expected_value are known
force_plot(explainer, sv, sel) == Plotted(explainer, sv, sel.base_value, sel.shap_vals)

\* 12app.py: plot_shap_explanation, from the computation of the SHAP values on
explain(m, e) ==
    IF ~e.ok
    THEN ShapFailed(e.text)
    ELSE force_plot(e.val, shap_values(e.val, m),
                    select_output(shap_values(e.val, m), expected_value(e.val, m)))

\* 12app.py: plot_shap_explanation(model, input_df)
plot_shap_explanation(m) ==
    IF m = None THEN NoShap ELSE explain(m, choose_explainer(m))

\* 1pneumonia_prediction_app.py: its list / array branch; index 1 of a
\* one-entry list raises IndexError
select_output_1p(sv, ev) ==
    IF sv.is_list
    THEN IF Len(sv.items) < 2 \/ Len(ev.items) < 2
         THEN Raise("IndexError", "list index out of range")
         ELSE Return([base_value |-> <<ev.items[2]>>, shap_vals |-> <<sv.items[2]>>])
    ELSE Return([base_value |-> ev.items, shap_vals |-> sv.items])

plot_1p(explainer, sv, sel) ==
    IF ~sel.ok THEN ShapFailed(sel.text) ELSE force_plot(explainer, sv, sel.val)

explain_1p(m, e) ==
    IF ~e.ok
    THEN ShapFailed(e.text)
    ELSE plot_1p(e.val, shap_values(e.val, m),
                 select_output_1p(shap_values(e.val, m), expected_value(e.val, m)))

\* 1pneumonia_prediction_app.py: plot_shap_explanation(model, input_df)
plot_shap_explanation_1p(m) == explain_1p(m, TreeExplainer(m))

----------------------------------------------------------------------------
(* One assessment: the body of "if predict_btn:" *)

NoAssessment ==
    [pressed |-> FALSE, scored |-> FALSE, msgs |-> <<>>, log |-> <<>>,
     proba |-> -1, risk_level |-> <<>>, risk_percentage |-> <<>>, color |-> "",
     shap |-> NoShap, protocol |-> "", report |-> NoReport]

\* 12app.py: the try block after scoring succeeded with proba
result_card(x, proba, sh) ==
    [pressed |-> TRUE, scored |-> TRUE,
     msgs |-> sh.msgs \o (IF sh.fig THEN <<>> ELSE <<Msg("no_shap_plot", "")>>),
     log |-> IF sh.msgs = <<>> THEN <<>> ELSE <<LogLine("error", sh.msgs[1].text)>>,
     proba |-> proba,
     risk_level |-> risk_level(proba),
     risk_percentage |-> format_percentage(proba),
     color |-> color(proba),
     shap |-> sh,
     protocol |-> protocol(proba),
     report |-> download_report(risk_level(proba), format_percentage(proba), proba, x)]

\* scored with the fixed message of the other script: no error text shown
scored_without_text(m, x, sc) ==
    IF ~sc.ok
    THEN [NoAssessment EXCEPT
            !.pressed = TRUE,
            !.msgs = <<Msg("prediction_error", "")>>,
            !.log = <<LogLine("error", sc.text)>>]
    ELSE result_card(x, sc.val[1][2], plot_shap_explanation(m))

\* 12app.py: the try / except, sc being what predict_proba did
scored(m, x, sc) ==
    IF ~sc.ok
    THEN [NoAssessment EXCEPT
            !.pressed = TRUE,
            !.msgs = <<Msg("prediction_error", sc.text)>>,
            !.log = <<LogLine("error", sc.text)>>]
    ELSE result_card(x, sc.val[1][2], plot_shap_explanation(m))

\* 12app.py: the body of "if predict_btn:"
assess(m, x) == scored(m, x, predict_proba(m, x))

\* 1pneumonia_prediction_app.py: the try block after scoring succeeded; it
\* offers no report and shows no warning when the plot is missing
result_card_1p(x, proba, sh) ==
    [pressed |-> TRUE, scored |-> TRUE,
     msgs |-> sh.msgs,
     log |-> <<>>,
     proba |-> proba,
     risk_level |-> risk_level_1p(proba),
     risk_percentage |-> format_percentage(proba),
     color |-> color_1p(proba),
     shap |-> sh,
     protocol |-> protocol_1p(proba),
     report |-> NoReport]

\* 1pneumonia_prediction_app.py: the try / except; the except shows a fixed
\* message and logs the error text
scored_1p(m, x, sc) ==
    IF ~sc.ok
    THEN [NoAssessment EXCEPT
            !.pressed = TRUE,
            !.msgs = <<Msg("prediction_error", "")>>,
            !.log = <<LogLine("error", sc.text)>>]
    ELSE result_card_1p(x, sc.val[1][2], plot_shap_explanation_1p(m))

\* 1pneumonia_prediction_app.py: the body of "if st.button(...):"
assess_1p(m, x) == scored_1p(m, x, predict_proba(m, x))

----------------------------------------------------------------------------
(* One run of main() *)

DefaultOption == "auto"
DefaultInput == 1

\* the values the widgets hold when first rendered
DefaultWidgets ==
    [model_option |-> DefaultOption, uploaded_file |-> Absent, input |-> DefaultInput]

\* st.session_state before and after "if 'model' not in st.session_state"
NoSession == [k \in {} |-> None]
NewSession == [model |-> None, uploaded_model |-> None]

BlankPage ==
    [ran |-> FALSE, stopped |-> FALSE, resolve |-> "", radio |-> FALSE,
     uploader |-> FALSE, form |-> FALSE, model |-> None,
     msgs |-> <<>>, log |-> <<>>, a |-> NoAssessment]

\* the state a run of 12app.py's main() leaves.  A widget that the run did
\* not render loses its value (Streamlit drops it) and shows its default the
\* next time it is rendered.
rendered(ss, files, c, w, resolve, model_loaded, shown, log, a) ==
    [session_state |-> ss,
     fs |-> files,
     cache |-> c,
     widgets |-> [model_option |-> IF resolve # "skipped" THEN w.model_option
                                   ELSE DefaultOption,
                  uploaded_file |-> IF resolve # "skipped" /\ w.model_option = "upload"
                                    THEN w.uploaded_file ELSE Absent,
                  input |-> IF model_loaded THEN w.input ELSE DefaultInput],
     page |-> [ran |-> TRUE, stopped |-> FALSE,
               resolve |-> resolve,
               radio |-> resolve # "skipped",
               uploader |-> resolve # "skipped" /\ w.model_option = "upload",
               form |-> model_loaded,
               model |-> ss.model,
               msgs |-> shown \o a.msgs,
               log |-> log \o a.log,
               a |-> a]]

\* 12app.py main(): "if model_loaded:" to the end
input_form(ss, files, c, w, predict_btn, resolve, model_loaded, shown, log) ==
    rendered(ss, files, c, w, resolve, model_loaded, shown, log,
             IF model_loaded /\ predict_btn THEN assess(ss.model, w.input)
             ELSE NoAssessment)

\* auto_load with the save path recorded on the automatic branch too
auto_load_records_path(ss, files, w, predict_btn, lm) ==
    input_form([model |-> lm.out.val, uploaded_model |-> save_path],
               files, lm.cache, w, predict_btn,
               "auto", lm.out.val # None,
               lm.out.msgs \o (IF lm.out.val # None THEN <<>>
                               ELSE <<Msg("not_found_warning", "")>>),
               lm.out.log)

\* 12app.py main(): the branch "自动加载预置模型", lm being what load_model() did
auto_load(ss, files, w, predict_btn, lm) ==
    input_form([ss EXCEPT !.model = lm.out.val], files, lm.cache, w, predict_btn,
               "auto", lm.out.val # None,
               lm.out.msgs \o (IF lm.out.val # None THEN <<>>
                               ELSE <<Msg("not_found_warning", "")>>),
               lm.out.log)

\* load_upload with the save path recorded before the load is attempted
load_upload_records_first(ss, files, c, w, predict_btn, up) ==
    input_form(IF up.ok THEN [model |-> up.val, uploaded_model |-> save_path]
               ELSE [ss EXCEPT !.uploaded_model = save_path],
               files, c, w, predict_btn,
               "upload", up.ok,
               IF up.ok THEN <<Msg("upload_ok", "")>> ELSE <<Msg("upload_failed", up.text)>>,
               <<>>)

\* 12app.py main(): the try / except of the upload branch once the upload is
\* written to save_path, up being what joblib.load(save_path) did
load_upload(ss, files, c, w, predict_btn, up) ==
    input_form(IF up.ok THEN [model |-> up.val, uploaded_model |-> save_path] ELSE ss,
               files, c, w, predict_btn,
               "upload", up.ok,
               IF up.ok THEN <<Msg("upload_ok", "")>> ELSE <<Msg("upload_failed", up.text)>>,
               <<>>)

\* 12app.py main(): "if uploaded_file:", files already holding the upload
save_upload(ss, files, c, w, predict_btn) ==
    load_upload(ss, files, c, w, predict_btn, joblib_load(files, save_path))

\* model_options without the check of the session's handle: every run
\* resolves again
model_options_always(ss, files, c, w, predict_btn) ==
    IF w.model_option = "auto"
    THEN auto_load(ss, files, w, predict_btn, cache_resource(c, load_model(files)))
    ELSE IF w.uploaded_file # Absent
         THEN save_upload(ss, [files EXCEPT ![save_path] = w.uploaded_file],
                          c, w, predict_btn)
         ELSE input_form(ss, files, c, w, predict_btn, "idle", FALSE, <<>>, <<>>)

\* 12app.py main(): from "if st.session_state.model is None:" on
model_options(ss, files, c, w, predict_btn) ==
    IF ss.model = None
    THEN IF w.model_option = "auto"
         THEN auto_load(ss, files, w, predict_btn, cache_resource(c, load_model(files)))
         ELSE IF w.uploaded_file # Absent
              THEN save_upload(ss, [files EXCEPT ![save_path] = w.uploaded_file],
                               c, w, predict_btn)
              ELSE input_form(ss, files, c, w, predict_btn, "idle", FALSE, <<>>, <<>>)
    ELSE input_form(ss, files, c, w, predict_btn, "skipped", TRUE, <<>>, <<>>)

\* 12app.py: main() with the widgets holding w and the button pressed or not
main(ss, files, c, w, predict_btn) ==
    model_options(IF "model" \in DOMAIN ss THEN ss ELSE NewSession,
                  files, c, w, predict_btn)

\* the state a run of 1pneumonia_prediction_app.py's main() leaves
rendered_1p(ss, files, w, lm, a) ==
    [session_state |-> ss,
     fs |-> files,
     cache |-> lm.cache,
     widgets |-> [w EXCEPT !.input = IF lm.out.stop THEN DefaultInput ELSE w.input],
     page |-> [ran |-> TRUE, stopped |-> lm.out.stop,
               resolve |-> IF lm.ran_body THEN "load" ELSE "cached",
               radio |-> FALSE, uploader |-> FALSE,
               form |-> ~lm.out.stop,
               model |-> lm.out.val,
               msgs |-> lm.out.msgs \o a.msgs,
               log |-> lm.out.log \o a.log,
               a |-> a]]

\* 1pneumonia_prediction_app.py main(): after "model = load_model()"
input_form_1p(ss, files, w, predict_btn, lm) ==
    rendered_1p(ss, files, w, lm,
                IF ~lm.out.stop /\ predict_btn THEN assess_1p(lm.out.val, w.input)
                ELSE NoAssessment)

\* 1pneumonia_prediction_app.py: main()
main_1p(ss, files, c, w, predict_btn) ==
    input_form_1p(ss, files, w, predict_btn, cache_resource(c, load_model_1p(files)))

----------------------------------------------------------------------------
(* The session *)

Apps == {"12app", "1pneumonia"}

CandidatePaths == {possible_paths[i] : i \in DOMAIN possible_paths}

\* what the user may upload
UploadBlobs == {Corrupt("invalid load key"), Corrupt("truncated pickle")}
               \cup {Pickle(m) : m \in Objects}

\* the model files found on disk when the session starts: for 12app every
\* candidate holds anything of SessionContents, for 1pneumonia the fixed path
\* holds any blob; every other path is absent
SessionContents == {Absent, Corrupt("invalid load key"), Pickle("tree")}

OnDisk(present) == [p \in Paths |-> IF p \in DOMAIN present THEN present[p] ELSE Absent]

SessionFiles(variant) ==
    IF variant = "12app"
    THEN {OnDisk(g) : g \in [CandidatePaths -> SessionContents]}
    ELSE {OnDisk(g) : g \in [{fixed_path} -> UploadBlobs \cup {Absent}]}

Init ==
    /\ app \in Apps
    /\ fs \in SessionFiles(app)
    /\ cache = NoCache
    /\ session_state = NoSession
    /\ widgets = DefaultWidgets
    /\ page = BlankPage

\* Streamlit runs the script with the widgets holding w
Commit(r) ==
    /\ session_state' = r.session_state
    /\ fs' = r.fs
    /\ cache' = r.cache
    /\ widgets' = r.widgets
    /\ page' = r.page
    /\ UNCHANGED app

Run(w, predict_btn) ==
    Commit(IF app = "12app"
           THEN main(session_state, fs, cache, w, predict_btn)
           ELSE main_1p(session_state, fs, cache, w, predict_btn))

\* the browser opens the page: first run of the session
Open == ~page.ran /\ Run(DefaultWidgets, FALSE)

\* a rerun without any widget change
Rerun == page.ran /\ Run(widgets, FALSE)

\* the radio "model source" is set to another option
SelectOption(o) ==
    /\ page.radio
    /\ o # widgets.model_option
    /\ Run([widgets EXCEPT !.model_option = o], FALSE)

\* a file is put into the uploader
UploadFile(b) ==
    /\ page.uploader
    /\ b # widgets.uploaded_file
    /\ Run([widgets EXCEPT !.uploaded_file = b], FALSE)

\* the file is removed from the uploader
RemoveUpload ==
    /\ page.uploader
    /\ widgets.uploaded_file # Absent
    /\ Run([widgets EXCEPT !.uploaded_file = Absent], FALSE)

\* a patient parameter is changed
ChangeInput(x) ==
    /\ page.form
    /\ x # widgets.input
    /\ Run([widgets EXCEPT !.input = x], FALSE)

\* the button "Start Risk Assessment" is pressed
StartRiskAssessment == page.form /\ Run(widgets, TRUE)

Next ==
    \/ Open
    \/ Rerun
    \/ \E o \in {"auto", "upload"} : SelectOption(o)
    \/ \E b \in UploadBlobs : UploadFile(b)
    \/ RemoveUpload
    \/ \E x \in 1..MaxInput : ChangeInput(x)
    \/ StartRiskAssessment

Spec == Init /\ [][Next]_vars

----------------------------------------------------------------------------
(* load_model() of 12app.py on its own, over every state of the candidates *)

LoadContents == {Absent, Corrupt("invalid load key"), Pickle("tree"), Pickle("generic")}

InitLoad ==
    /\ app = "12app"
    /\ fs \in {OnDisk(g) : g \in [CandidatePaths -> LoadContents]}
    /\ cache = NoCache
    /\ session_state = NoSession
    /\ widgets = DefaultWidgets
    /\ page = BlankPage

CallLoadModel ==
    /\ cache' = cache_resource(cache, load_model(fs)).cache
    /\ UNCHANGED <<app, fs, session_state, widgets, page>>

NextLoad == CallLoadModel

SpecLoad == InitLoad /\ [][NextLoad]_vars

----------------------------------------------------------------------------
(* Properties *)

\* candidates that exist and deserialize without error
ValidCandidates(files) ==
    {i \in DOMAIN possible_paths : files[possible_paths[i]].kind = "pickle"}

ExistingCandidates(files) ==
    {i \in DOMAIN possible_paths : exists(files, possible_paths[i])}

Earliest(S) == CHOOSE i \in S : \A j \in S : i <= j

HasMsg(p, k) == \E i \in DOMAIN p.msgs : p.msgs[i].kind = k

MsgText(p, k) == {p.msgs[i].text : i \in {j \in DOMAIN p.msgs : p.msgs[j].kind = k}}

\* the session's handle: None until 12app.py has stored one
Handle(ss) == IF "model" \in DOMAIN ss THEN ss.model ELSE None

\* the session fields as a run that stores nothing leaves them
Untouched(ss) == IF "model" \in DOMAIN ss THEN ss ELSE NewSession

\* C1: whenever some candidate exists and deserializes without error,
\* load_model() returns the model of the earliest such candidate (and logs
\* that candidate's path), whatever the state of the candidates before it.
C1_EarliestValidCandidateWins ==
    (cache.set /\ ValidCandidates(fs) # {}) =>
        /\ cache.val.val = fs[possible_paths[Earliest(ValidCandidates(fs))]].obj
        /\ cache.val.log = <<LogLine("info", possible_paths[Earliest(ValidCandidates(fs))])>>

\* C2: scoring is invoked only on a resolved handle (not None); in 12app.py
\* the input form and the assessment button are offered only while the
\* session's handle is resolved; in 1pneumonia_prediction_app.py a failed load
\* stops the run before the form and before any scoring.
C2_NoPredictionWithoutHandle ==
    /\ (page.a.pressed /\ hasattr(page.model, "predict_proba")) => page.model # None
    /\ app = "12app" => (page.form => Handle(session_state) # None)
    /\ app = "1pneumonia" => (page.stopped => ~page.form /\ ~page.a.pressed)

\* C3: in 12app.py, a run that resolves with no candidate file on disk and no
\* upload supplied ends not-found: the handle is None, the user is told (auto
\* option), nothing is written to disk, the session is not stopped, and the
\* session fields are the ones an idle run leaves.
C3_NotFoundHasNoSideEffects ==
    [][ (/\ app = "12app"
         /\ ExistingCandidates(fs) = {}
         /\ page'.resolve \in {"auto", "idle"})
        => (/\ Handle(session_state') = None
            /\ session_state' = Untouched(session_state)
            /\ fs' = fs
            /\ ~page'.form
            /\ ~page'.stopped
            /\ (page'.resolve = "auto" =>
                    /\ page'.msgs = <<Msg("not_found_warning", "")>>
                    /\ cache'.set /\ cache'.val.val = None) ) ]_vars

\* C3 witness: the automatic option ran with no candidate on disk
C3_Witness ==
    /\ app = "12app"
    /\ ExistingCandidates(fs) = {}
    /\ page.resolve = "auto"
    /\ Handle(session_state) = None
    /\ HasMsg(page, "not_found_warning")

\* C4: in 12app.py, a run that loads an upload that cannot be deserialized
\* shows the upload error with the deserialization error's text, does not
\* stop the session, leaves the handle unresolved and the session fields as
\* they were, and offers the uploader again; and a run that then loads an
\* upload holding a predictor resolves the handle to that predictor and
\* offers the input form.
C4_CorruptUploadIsRecoverable ==
    [][ /\ (/\ app = "12app"
            /\ page'.resolve = "upload"
            /\ widgets'.uploaded_file.kind = "corrupt")
           => (/\ page'.msgs = <<Msg("upload_failed", widgets'.uploaded_file.err)>>
               /\ widgets'.uploaded_file.err # ""
               /\ ~page'.stopped
               /\ Handle(session_state') = None
               /\ session_state' = Untouched(session_state)
               /\ page'.radio /\ page'.uploader
               /\ ~page'.form)
        /\ (/\ app = "12app"
            /\ page.resolve = "upload"
            /\ HasMsg(page, "upload_failed")
            /\ page'.resolve = "upload"
            /\ widgets'.uploaded_file.kind = "pickle"
            /\ widgets'.uploaded_file.obj # None)
           => (/\ session_state'.model = widgets'.uploaded_file.obj
               /\ session_state'.uploaded_model = save_path
               /\ page'.form) ]_vars

\* C4 witness: a corrupt upload was refused and the session goes on unresolved
C4_Witness ==
    /\ app = "12app"
    /\ page.resolve = "upload"
    /\ widgets.uploaded_file.kind = "corrupt"
    /\ HasMsg(page, "upload_failed")
    /\ Handle(session_state) = None
    /\ session_state.uploaded_model = None
    /\ page.uploader

\* C5: in 12app.py, once the session's handle is resolved, every later run
\* skips resolution (no load_model call, no upload load, no file written) and
\* leaves the session fields unchanged; so the handle is set at most once.
C5_ResolvedHandleIsCached ==
    [][ (app = "12app" /\ Handle(session_state) # None)
        => (/\ session_state' = session_state
            /\ page'.resolve = "skipped"
            /\ page'.form
            /\ cache' = cache
            /\ fs' = fs) ]_vars

\* C5 witness: a failed assessment on a resolved handle, resolution skipped
C5_Witness ==
    /\ app = "12app"
    /\ Handle(session_state) # None
    /\ page.resolve = "skipped"
    /\ page.a.pressed
    /\ ~page.a.scored

\* C6: in both scripts, a run whose assessment fails in scoring or in
\* attribution shows an error (12app.py: with the raw error text), is not
\* stopped, leaves the session fields and the handle unchanged, and offers
\* the form and the button again, so another assessment can be requested.
C6_AssessmentFailureIsNotFatal ==
    [][ (page'.a.pressed /\ (~page'.a.scored \/ HasMsg(page', "shap_failed")))
        => (/\ ~page'.stopped
            /\ page'.form
            /\ session_state' = session_state
            /\ page'.model = page.model
            /\ ~page'.a.scored =>
                  /\ HasMsg(page', "prediction_error")
                  /\ page'.a.protocol = ""
                  /\ app = "12app" =>
                        /\ MsgText(page', "prediction_error")
                              = {predict_proba(page'.model, widgets'.input).text}
                        /\ "" \notin MsgText(page', "prediction_error")
            /\ page'.a.scored =>
                  /\ "" \notin MsgText(page', "shap_failed")
                  /\ ~page'.a.shap.fig
                  /\ page'.a.protocol # "") ]_vars

\* C6 witness: scoring raised on a resolved handle and the form is still there
C6_Witness ==
    /\ page.a.pressed
    /\ ~page.a.scored
    /\ page.model # None
    /\ HasMsg(page, "prediction_error")
    /\ page.form
    /\ ~page.stopped

\* the tier labels as the specification spells them
HighRiskLabel == <<"H", "i", "g", "h", " ", "R", "i", "s", "k">>
LowRiskLabel == <<"L", "o", "w", " ", "R", "i", "s", "k">>

\* probabilities the pure-function claims are checked on: every multiple of
\* 0.0025, the neighbours of the thresholds, and every probability a session
\* can score
Grid == {25 * k : k \in 0..400} \cup {4999, 5001, 6999, 7001} \cup Probabilities

\* C7: for every probability p both scripts give the tier "High Risk" exactly
\* when p > 0.5 and "Low Risk" otherwise (0.45 and 0.5 Low, 0.75 High), and
\* the tier a session displays is that function of the probability it scored.
C7_TwoTierIsFunctionOfProbability ==
    /\ \A p \in Grid :
          /\ risk_level(p) = IF p > 5000 THEN HighRiskLabel ELSE LowRiskLabel
          /\ risk_level_1p(p) = risk_level(p)
    /\ risk_level(4500) = LowRiskLabel /\ risk_level_1p(4500) = LowRiskLabel
    /\ risk_level(5000) = LowRiskLabel /\ risk_level_1p(5000) = LowRiskLabel
    /\ risk_level(7500) = HighRiskLabel /\ risk_level_1p(7500) = HighRiskLabel
    /\ page.a.scored =>
          page.a.risk_level = IF page.a.proba > 5000 THEN HighRiskLabel ELSE LowRiskLabel

\* C7 witness: an assessment scored exactly 0.5 and shows "Low Risk"
C7_Witness ==
    /\ page.a.scored
    /\ page.a.proba = 5000
    /\ page.a.risk_level = LowRiskLabel

\* C8: for every probability p both scripts select the High Risk Protocol
\* when p > 0.7, the Moderate Risk Protocol when 0.5 < p <= 0.7 and the Low
\* Risk Protocol when p <= 0.5; the block a session shows is that function of
\* the probability it scored, so 0.75 shows "High Risk" and the high-risk block.
C8_ProtocolBoundaries ==
    /\ \A p \in Grid :
          /\ protocol(p) = (CASE p > 7000              -> "High Risk Protocol"
                              [] p > 5000 /\ p <= 7000 -> "Moderate Risk Protocol"
                              [] p <= 5000             -> "Low Risk Protocol")
          /\ protocol_1p(p) = protocol(p)
    /\ page.a.scored =>
          /\ page.a.protocol = (CASE page.a.proba > 7000  -> "High Risk Protocol"
                                  [] page.a.proba > 5000 /\ page.a.proba <= 7000
                                                          -> "Moderate Risk Protocol"
                                  [] page.a.proba <= 5000 -> "Low Risk Protocol")
          /\ page.a.proba = 7500 =>
                (page.a.risk_level = HighRiskLabel /\ page.a.protocol = "High Risk Protocol")

\* C8 witness: an assessment scored 0.75: High Risk tier, high-risk block
C8_Witness ==
    /\ page.a.scored
    /\ page.a.proba = 7500
    /\ page.a.risk_level = HighRiskLabel
    /\ page.a.protocol = "High Risk Protocol"

\* C9: in 12app.py every scored assessment offers a report whose risk level
\* and percentage are the ones shown on the card (the percentage being the
\* scored probability to one decimal) and whose file name is
\* VAP_Assessment_<label with "_" for " ">.txt.
C9_ReportMatchesAssessment ==
    (app = "12app" /\ page.a.scored) =>
        /\ page.a.report.offered
        /\ page.a.report.risk_level = page.a.risk_level
        /\ page.a.report.risk_percentage = page.a.risk_percentage
        /\ LET shown == 100 * page.a.risk_percentage[1] + 10 * page.a.risk_percentage[2]
           IN  shown - page.a.proba \in -5..5
        /\ page.a.report.file_name =
              IF page.a.risk_level = HighRiskLabel
              THEN <<"VAP_Assessment_", "H", "i", "g", "h", "_", "R", "i", "s", "k", ".txt">>
              ELSE <<"VAP_Assessment_", "L", "o", "w", "_", "R", "i", "s", "k", ".txt">>

\* C9 witness: a report offered for a Moderate-protocol High Risk assessment
C9_Witness ==
    /\ app = "12app"
    /\ page.a.report.offered
    /\ page.a.proba = 7000
    /\ page.a.report.risk_level = HighRiskLabel
    /\ page.a.report.risk_percentage = <<70, 0>>

\* C10: in 12app.py a plotted explanation used the TreeExplainer when the
\* predictor has tree_ or estimators_ and otherwise the KernelExplainer with a
\* 10-row background request; when the SHAP values are a list with more than
\* one output the plotted contributions and base value are those of class 1;
\* and an explanation can only fail for lack of predict on a non-tree model.
C10_ExplainerByCapability ==
    (app = "12app" /\ page.a.scored) =>
        /\ page.a.shap.fig =>
              /\ page.a.shap.explainer =
                    IF hasattr(page.model, "tree_") \/ hasattr(page.model, "estimators_")
                    THEN [kind |-> "TreeExplainer", background |-> 0]
                    ELSE [kind |-> "KernelExplainer", background |-> 10]
              /\ (page.a.shap.is_list /\ page.a.shap.outputs > 1) =>
                    (page.a.shap.shap_vals = <<1>> /\ page.a.shap.base_value = <<1>>)
        /\ ~page.a.shap.fig =>
              /\ ~hasattr(page.model, "tree_")
              /\ ~hasattr(page.model, "estimators_")
              /\ ~hasattr(page.model, "predict")

\* C10 witness: a three-output tree explanation plotted with class 1
C10_Witness ==
    /\ app = "12app"
    /\ page.a.shap.fig
    /\ page.a.shap.explainer.kind = "TreeExplainer"
    /\ page.a.shap.is_list
    /\ page.a.shap.outputs = 3
    /\ page.a.shap.shap_vals = <<1>>

\* C11: in both scripts, for every probability, the Low Risk Protocol is
\* selected exactly when the tier is "Low Risk", and the High Risk Protocol
\* and the Moderate Risk Protocol are selected only when the tier is
\* "High Risk"; so is what a session displays for the probability it scored.
C11_TierAndProtocolAgree ==
    /\ \A p \in Grid :
          /\ protocol(p) = "Low Risk Protocol" <=> risk_level(p) = LowRiskLabel
          /\ protocol(p) = "High Risk Protocol" => risk_level(p) = HighRiskLabel
          /\ protocol(p) = "Moderate Risk Protocol" => risk_level(p) = HighRiskLabel
          /\ protocol_1p(p) = "Low Risk Protocol" <=> risk_level_1p(p) = LowRiskLabel
          /\ protocol_1p(p) = "High Risk Protocol" => risk_level_1p(p) = HighRiskLabel
          /\ protocol_1p(p) = "Moderate Risk Protocol" => risk_level_1p(p) = HighRiskLabel
    /\ page.a.scored =>
          /\ page.a.protocol \in {"Low Risk Protocol", "Moderate Risk Protocol",
                                  "High Risk Protocol"}
          /\ page.a.protocol = "Low Risk Protocol" <=> page.a.risk_level = LowRiskLabel
          /\ page.a.protocol = "High Risk Protocol" => page.a.risk_level = HighRiskLabel
          /\ page.a.protocol = "Moderate Risk Protocol" => page.a.risk_level = HighRiskLabel

\* C11 witness: a Moderate Risk Protocol shown under the "High Risk" tier
C11_Witness ==
    /\ page.a.scored
    /\ page.a.proba = 5001
    /\ page.a.protocol = "Moderate Risk Protocol"
    /\ page.a.risk_level = HighRiskLabel

\* the recommendation block a protocol name of the report stands for
BlockNamed(name) ==
    CASE name = "High Risk"     -> "High Risk Protocol"
      [] name = "Moderate Risk" -> "Moderate Risk Protocol"
      [] name = "Low Risk"      -> "Low Risk Protocol"
      [] OTHER                  -> "no such block"

\* C12: in 12app.py, for every probability, the "Recommended Protocol" name
\* written into the report names the block the page displays for it, at the
\* boundaries too: 0.5 is Low Risk in both, 0.7 is Moderate Risk in both.
C12_ReportNamesDisplayedProtocol ==
    /\ \A p \in Grid :
          BlockNamed(download_report(risk_level(p), format_percentage(p), p, 1).protocol)
             = protocol(p)
    /\ (app = "12app" /\ page.a.scored) =>
          /\ page.a.report.offered
          /\ BlockNamed(page.a.report.protocol) = page.a.protocol
          /\ page.a.proba = 5000 =>
                (page.a.report.protocol = "Low Risk"
                 /\ page.a.protocol = "Low Risk Protocol")
          /\ page.a.proba = 7000 =>
                (page.a.report.protocol = "Moderate Risk"
                 /\ page.a.protocol = "Moderate Risk Protocol")

\* C12 witness: at exactly 0.7 the page shows the Moderate Risk Protocol and
\* the report names Moderate Risk
C12_Witness ==
    /\ app = "12app"
    /\ page.a.report.offered
    /\ page.a.proba = 7000
    /\ page.a.report.protocol = "Moderate Risk"
    /\ page.a.protocol = "Moderate Risk Protocol"

====
